---- MODULE Spec2Model ----
(***************************************************************************)
(* Model of the two placeholder-asset generators of src-tauri/icons:       *)
(*   create_ico.py          (create_minimal_ico, one call, one message)    *)
(*   create_placeholders.py (create_minimal_png, three calls, one message) *)
(* Bytes are naturals 0..255, byte strings are sequences of bytes, a file  *)
(* is a record [exists, data].  32-bit literals that do not fit a signed   *)
(* 32-bit integer (the CRC constants) are kept as two 16-bit halves.       *)
(***************************************************************************)
EXTENDS Integers, Sequences, FiniteSets, TLC

VARIABLES fs, pc, ip, args, pending, err, out, runs, last

vars == <<fs, pc, ip, args, pending, err, out, runs, last>>

(* ---------------------------------------------------------------------- *)
(* Bounds                                                                 *)
(* ---------------------------------------------------------------------- *)
\* how many times each script is launched
MaxRuns == 2
\* how many calls of a generator function the free caller makes
MaxCalls == 2
\* widths and heights handed to create_minimal_png by the free caller
Dims == {32, 128, 70000}
\* file names handed to create_minimal_png by the free caller
FnNames == {"32x32.png", "128x128.png"}

(* ---------------------------------------------------------------------- *)
(* Byte strings and struct.pack                                           *)
(* ---------------------------------------------------------------------- *)
RECURSIVE Concat(_)
Concat(ss) == IF ss = <<>> THEN <<>> ELSE Head(ss) \o Concat(Tail(ss))

Zeros(n) == [i \in 1..n |-> 0]

RECURSIVE Pow256(_)
Pow256(k) == IF k = 0 THEN 1 ELSE 256 * Pow256(k - 1)

FieldSize(c) == CASE c = "B" -> 1 [] c = "H" -> 2 [] c = "I" -> 4

\* struct.pack range check of one unsigned field (every integer of the model
\* is below 2^32, so an "I" field only rejects negatives)
InRange(c, v) ==
    /\ v >= 0
    /\ c = "B" => v < 256
    /\ c = "H" => v < 65536

\* n bytes of v, most significant first ('>') or least significant first ('<')
IntBytes(order, n, v) ==
    [i \in 1..n |->
        IF order = "<" THEN (v \div Pow256(i - 1)) % 256
                       ELSE (v \div Pow256(n - i)) % 256]

PackError == [ok |-> FALSE, bytes |-> <<>>]

\* struct.pack(order + fmt, *vals) with standard sizes and no padding;
\* raises struct.error when the item count differs from the field count or
\* an item is out of range
StructPack(order, fmt, vals) ==
    IF Len(fmt) # Len(vals) THEN PackError
    ELSE IF \E i \in 1..Len(fmt) : ~InRange(fmt[i], vals[i]) THEN PackError
    ELSE [ok |-> TRUE,
          bytes |-> Concat([i \in 1..Len(fmt) |->
                              IntBytes(order, FieldSize(fmt[i]), vals[i])])]

\* a 32-bit literal given by its two 16-bit halves
U32(hi, lo) == [hi |-> hi, lo |-> lo]

\* struct.pack('>I', u) for such a literal
PackU32BE(u) ==
    <<u.hi \div 256, u.hi % 256, u.lo \div 256, u.lo % 256>>

(* ---------------------------------------------------------------------- *)
(* create_ico.py : create_minimal_ico                                     *)
(* ---------------------------------------------------------------------- *)
ico_width == 32
ico_height == 32

\* ICO header (6 bytes): Reserved (2) + Type (2) + Count (2)
ico_header == StructPack("<", <<"H", "H", "H">>, <<0, 1, 1>>)

\* blank RGBA pixel buffer
image_data == Zeros(ico_width * ico_height * 4)

\* the format string '<IHHHHHIIHHHII' of the BMP info header
bmp_format == <<"I", "H", "H", "H", "H", "H", "I", "I", "H", "H", "H", "I", "I">>

\* the values handed to struct.pack with that format
bmp_values == <<40, ico_width, ico_height * 2, 1, 32, 0, Len(image_data), 0, 0, 0, 0>>

bmp_header == StructPack("<", bmp_format, bmp_values)

image_size == Len(bmp_header.bytes) + Len(image_data)

\* the offset literal appended to the directory entry
ico_offset == 22

dir_entry_head ==
    StructPack("<", <<"B", "B", "B", "B", "H", "H", "I">>,
               <<ico_width, ico_height, 0, 0, 1, 32, image_size>>)

dir_entry_offset == StructPack("<", <<"I">>, <<ico_offset>>)

dir_entry == dir_entry_head.bytes \o dir_entry_offset.bytes

\* lines 8-34: every buffer in source order; the first struct.error aborts
\* the call, otherwise the four buffers are written in this order
IcoBuild ==
    IF ico_header.ok /\ bmp_header.ok /\ dir_entry_head.ok /\ dir_entry_offset.ok
    THEN [ok |-> TRUE,
          bufs |-> <<ico_header.bytes, dir_entry, bmp_header.bytes, image_data>>]
    ELSE [ok |-> FALSE, bufs |-> <<>>]

(* ---------------------------------------------------------------------- *)
(* create_placeholders.py : create_minimal_png                            *)
(* ---------------------------------------------------------------------- *)
\* b'\x89PNG\r\n\x1a\n'
signature == <<137, 80, 78, 71, 13, 10, 26, 10>>

TagIHDR == <<73, 72, 68, 82>>
TagIDAT == <<73, 68, 65, 84>>
TagIEND == <<73, 69, 78, 68>>

\* variant: the IHDR fields packed little-endian ('<IIBBBBB')
ihdr_data_le(width, height) ==
    StructPack("<", <<"I", "I", "B", "B", "B", "B", "B">>,
               <<width, height, 8, 2, 0, 0, 0>>)

ihdr_data(width, height) ==
    StructPack(">", <<"I", "I", "B", "B", "B", "B", "B">>,
               <<width, height, 8, 2, 0, 0, 0>>)

\* variant: the CRC of a 1x1 IHDR, 0x907753de
ihdr_crc_1x1 == U32(\H9077, \H53DE)

\* 0x90773496
ihdr_crc == U32(\H9077, \H3496)

ihdr_chunk(width, height) == TagIHDR \o ihdr_data(width, height).bytes

ihdr_length == StructPack(">", <<"I">>, <<13>>)

ihdr(width, height) ==
    ihdr_length.bytes \o ihdr_chunk(width, height) \o PackU32BE(ihdr_crc)

\* b'\x08\x1d\x01\x01\x00\xfe\xff\x00\x00\x00\x01\x00\x01'
idat_data == <<8, 29, 1, 1, 0, 254, 255, 0, 0, 0, 1, 0, 1>>

\* 0xe1240dc9
idat_crc == U32(\HE124, \H0DC9)

idat_chunk == TagIDAT \o idat_data

idat_length == StructPack(">", <<"I">>, <<Len(idat_data)>>)

idat == idat_length.bytes \o idat_chunk \o PackU32BE(idat_crc)

\* 0xae426082
iend_crc == U32(\HAE42, \H6082)

iend_length == StructPack(">", <<"I">>, <<0>>)

\* variant: the IEND chunk without its length field
iend_nolen == TagIEND \o PackU32BE(iend_crc)

iend == iend_length.bytes \o TagIEND \o PackU32BE(iend_crc)

\* lines 6-22: the one buffer handed to f.write, or struct.error
PngBuild(width, height) ==
    IF ihdr_data(width, height).ok /\ ihdr_length.ok /\ idat_length.ok /\ iend_length.ok
    THEN [ok |-> TRUE,
          bufs |-> << signature \o ihdr(width, height) \o idat \o iend >>]
    ELSE [ok |-> FALSE, bufs |-> <<>>]

(* ---------------------------------------------------------------------- *)
(* The scripts: module-level statements in source order                   *)
(* ---------------------------------------------------------------------- *)
Procs == {"ico", "png"}

FileNames == {"icon.ico", "32x32.png", "128x128.png", "128x128@2x.png"}

CallStmt(w, h, f) == [op |-> "call", width |-> w, height |-> h, filename |-> f, msg |-> ""]
PrintStmt(m) == [op |-> "print", width |-> 0, height |-> 0, filename |-> "", msg |-> m]

IcoScript ==
    << CallStmt(ico_width, ico_height, "icon.ico"),
       PrintStmt("ICO file created successfully") >>

PngScript ==
    << CallStmt(32, 32, "32x32.png"),
       CallStmt(128, 128, "128x128.png"),
       CallStmt(128, 128, "128x128@2x.png"),
       PrintStmt("PNG files created successfully") >>

Script(p) == IF p = "ico" THEN IcoScript ELSE PngScript

\* the buffers the generator of script p constructs for arguments a
Build(p, a) == IF p = "ico" THEN IcoBuild ELSE PngBuild(a.width, a.height)

(* ---------------------------------------------------------------------- *)
(* Files                                                                  *)
(* ---------------------------------------------------------------------- *)
NoFile == [exists |-> FALSE, data |-> <<>>]

\* content left in the working directory by something else
StaleFile == [exists |-> TRUE, data |-> <<111, 108, 100>>]

\* variant: open(filename, 'ab') keeps what the file already holds
OpenAB(file) == [exists |-> TRUE, data |-> file.data]

\* open(filename, 'wb'): creates the file or truncates it to length zero
OpenWB(file) == [exists |-> TRUE, data |-> <<>>]

\* f.write(buf) on the open file
FileWrite(file, buf) == [exists |-> TRUE, data |-> file.data \o buf]

NoArgs == [width |-> 0, height |-> 0, filename |-> ""]

NoEmission == [gen |-> "none", width |-> 0, height |-> 0, data |-> <<>>, count |-> 0]

(* ---------------------------------------------------------------------- *)
(* State                                                                  *)
(*   fs       the working directory                                       *)
(*   pc       "idle" | "module" | "build" | "open" | "write" | "exited"   *)
(*   ip       index of the next module-level statement (or call number)   *)
(*   args     arguments of the current generator call                     *)
(*   pending  buffers constructed and not yet written                     *)
(*   err      "none" | "struct.error" | "OSError"                         *)
(*   out      lines printed by the current run                            *)
(*   runs     launches so far                                             *)
(*   last     history: per file, the arguments and bytes of the last      *)
(*            generator call that wrote and closed it, and how many did   *)
(* ---------------------------------------------------------------------- *)
Init ==
    /\ fs \in [FileNames -> {NoFile, StaleFile}]
    /\ pc = [p \in Procs |-> "idle"]
    /\ ip = [p \in Procs |-> 1]
    /\ args = [p \in Procs |-> NoArgs]
    /\ pending = [p \in Procs |-> <<>>]
    /\ err = [p \in Procs |-> "none"]
    /\ out = [p \in Procs |-> <<>>]
    /\ runs = [p \in Procs |-> 0]
    /\ last = [f \in FileNames |-> NoEmission]

\* python create_ico.py / python create_placeholders.py
Launch(p) ==
    /\ pc[p] \in {"idle", "exited"}
    /\ runs[p] < MaxRuns
    /\ pc' = [pc EXCEPT ![p] = "module"]
    /\ ip' = [ip EXCEPT ![p] = 1]
    /\ args' = [args EXCEPT ![p] = NoArgs]
    /\ pending' = [pending EXCEPT ![p] = <<>>]
    /\ err' = [err EXCEPT ![p] = "none"]
    /\ out' = [out EXCEPT ![p] = <<>>]
    /\ runs' = [runs EXCEPT ![p] = @ + 1]
    /\ UNCHANGED <<fs, last>>

\* a module-level call statement enters the generator
CallGenerator(p) ==
    /\ pc[p] = "module"
    /\ ip[p] <= Len(Script(p))
    /\ Script(p)[ip[p]].op = "call"
    /\ LET s == Script(p)[ip[p]] IN
         args' = [args EXCEPT ![p] =
                    [width |-> s.width, height |-> s.height, filename |-> s.filename]]
    /\ pc' = [pc EXCEPT ![p] = "build"]
    /\ UNCHANGED <<fs, ip, pending, err, out, runs, last>>

\* variant: the file is opened before the buffers are constructed
OpenThenBuild(p) ==
    /\ pc[p] = "build"
    /\ fs' = [fs EXCEPT ![args[p].filename] = OpenWB(@)]
    /\ LET r == Build(p, args[p]) IN
         IF r.ok
         THEN /\ pending' = [pending EXCEPT ![p] = r.bufs]
              /\ pc' = [pc EXCEPT ![p] = "write"]
              /\ err' = err
         ELSE /\ pending' = pending
              /\ pc' = [pc EXCEPT ![p] = "exited"]
              /\ err' = [err EXCEPT ![p] = "struct.error"]
    /\ UNCHANGED <<ip, args, out, runs, last>>

\* the in-memory construction of every buffer; a struct.error is not caught
\* and ends the process
BuildBuffers(p) ==
    /\ pc[p] = "build"
    /\ LET r == Build(p, args[p]) IN
         IF r.ok
         THEN /\ pending' = [pending EXCEPT ![p] = r.bufs]
              /\ pc' = [pc EXCEPT ![p] = "open"]
              /\ err' = err
         ELSE /\ pending' = pending
              /\ pc' = [pc EXCEPT ![p] = "exited"]
              /\ err' = [err EXCEPT ![p] = "struct.error"]
    /\ UNCHANGED <<fs, ip, args, out, runs, last>>

\* with open(filename, 'wb') as f
OpenFile(p) ==
    /\ pc[p] = "open"
    /\ fs' = [fs EXCEPT ![args[p].filename] = OpenWB(@)]
    /\ pc' = [pc EXCEPT ![p] = "write"]
    /\ UNCHANGED <<ip, args, pending, err, out, runs, last>>

\* open raises OSError (permission denied, path not writable)
OpenFails(p) ==
    /\ pc[p] = "open"
    /\ pc' = [pc EXCEPT ![p] = "exited"]
    /\ err' = [err EXCEPT ![p] = "OSError"]
    /\ UNCHANGED <<fs, ip, args, pending, out, runs, last>>

\* f.write(buf) of the next buffer
WriteBuffer(p) ==
    /\ pc[p] = "write"
    /\ pending[p] # <<>>
    /\ fs' = [fs EXCEPT ![args[p].filename] = FileWrite(@, Head(pending[p]))]
    /\ pending' = [pending EXCEPT ![p] = Tail(@)]
    /\ UNCHANGED <<pc, ip, args, err, out, runs, last>>

\* the write raises OSError (disk full); some prefix of the buffer may have
\* reached the file
WriteFails(p) ==
    /\ pc[p] = "write"
    /\ pending[p] # <<>>
    /\ \E k \in {0, Len(Head(pending[p])) \div 2} :
         fs' = [fs EXCEPT ![args[p].filename] =
                  FileWrite(@, SubSeq(Head(pending[p]), 1, k))]
    /\ pc' = [pc EXCEPT ![p] = "exited"]
    /\ err' = [err EXCEPT ![p] = "OSError"]
    /\ UNCHANGED <<ip, args, pending, out, runs, last>>

\* end of the with block: the file is closed and the generator returns
CloseFile(p) ==
    /\ pc[p] = "write"
    /\ pending[p] = <<>>
    /\ pc' = [pc EXCEPT ![p] = "module"]
    /\ ip' = [ip EXCEPT ![p] = @ + 1]
    /\ last' = [last EXCEPT ![args[p].filename] =
                  [gen |-> p, width |-> args[p].width, height |-> args[p].height,
                   data |-> fs[args[p].filename].data,
                   count |-> last[args[p].filename].count + 1]]
    /\ UNCHANGED <<fs, args, pending, err, out, runs>>

\* print("... created successfully")
PrintMessage(p) ==
    /\ pc[p] = "module"
    /\ ip[p] <= Len(Script(p))
    /\ Script(p)[ip[p]].op = "print"
    /\ out' = [out EXCEPT ![p] = Append(@, Script(p)[ip[p]].msg)]
    /\ ip' = [ip EXCEPT ![p] = @ + 1]
    /\ UNCHANGED <<fs, pc, args, pending, err, runs, last>>

\* end of the module: the process exits normally
Exit(p) ==
    /\ pc[p] = "module"
    /\ ip[p] > Len(Script(p))
    /\ pc' = [pc EXCEPT ![p] = "exited"]
    /\ UNCHANGED <<fs, ip, args, pending, err, out, runs, last>>

Next ==
    \E p \in Procs :
        \/ Launch(p)
        \/ CallGenerator(p)
        \/ BuildBuffers(p)
        \/ OpenFile(p)
        \/ OpenFails(p)
        \/ WriteBuffer(p)
        \/ WriteFails(p)
        \/ CloseFile(p)
        \/ PrintMessage(p)
        \/ Exit(p)

Spec == Init /\ [][Next]_vars

(* ---------------------------------------------------------------------- *)
(* The generators as functions, under a caller free to pick the arguments *)
(* ---------------------------------------------------------------------- *)
\* the argument tuples a caller may hand to the generator of p
CallArgs(p) ==
    IF p = "ico"
    THEN {[width |-> ico_width, height |-> ico_height, filename |-> "icon.ico"]}
    ELSE [width : Dims, height : Dims, filename : FnNames]

InitFn ==
    /\ fs \in [FileNames -> {NoFile, StaleFile}]
    /\ \A f \in FileNames \ (FnNames \cup {"icon.ico"}) : fs[f] = NoFile
    /\ pc = [p \in Procs |-> "module"]
    /\ ip = [p \in Procs |-> 1]
    /\ args = [p \in Procs |-> NoArgs]
    /\ pending = [p \in Procs |-> <<>>]
    /\ err = [p \in Procs |-> "none"]
    /\ out = [p \in Procs |-> <<>>]
    /\ runs = [p \in Procs |-> 1]
    /\ last = [f \in FileNames |-> NoEmission]

\* create_minimal_ico(filename) / create_minimal_png(width, height, filename)
CallAny(p) ==
    /\ pc[p] = "module"
    /\ ip[p] <= MaxCalls
    /\ \E a \in CallArgs(p) : args' = [args EXCEPT ![p] = a]
    /\ pc' = [pc EXCEPT ![p] = "build"]
    /\ UNCHANGED <<fs, ip, pending, err, out, runs, last>>

NextFn ==
    \E p \in Procs :
        \/ CallAny(p)
        \/ BuildBuffers(p)
        \/ OpenFile(p)
        \/ OpenFails(p)
        \/ WriteBuffer(p)
        \/ WriteFails(p)
        \/ CloseFile(p)

SpecFn == InitFn /\ [][NextFn]_vars

(* ---------------------------------------------------------------------- *)
(* Reading the emitted bytes back: decoders used by the properties        *)
(* ---------------------------------------------------------------------- *)
\* little-endian / big-endian value of a byte string (up to 31 bits)
RECURSIVE DecodeLE(_)
DecodeLE(b) == IF b = <<>> THEN 0 ELSE Head(b) + 256 * DecodeLE(Tail(b))

RECURSIVE DecodeBE(_)
DecodeBE(b) ==
    IF b = <<>> THEN 0 ELSE DecodeBE(SubSeq(b, 1, Len(b) - 1)) * 256 + b[Len(b)]

\* 0-based half-open slice d[from : to], as file byte offsets are usually given
Slice(d, from, to) == SubSeq(d, from + 1, to)

\* the chunk stream after the 8-byte signature, read by the length fields;
\* reading stops at the first chunk that does not fit
RECURSIVE Chunks(_)
Chunks(d) ==
    IF Len(d) < 12 \/ d[1] # 0 \/ d[2] # 0 THEN <<>>
    ELSE LET n == DecodeBE(Slice(d, 0, 4)) IN
         IF Len(d) < 12 + n THEN <<>>
         ELSE << [length |-> n,
                  tag    |-> Slice(d, 4, 8),
                  data   |-> Slice(d, 8, 8 + n),
                  crc    |-> Slice(d, 8 + n, 12 + n)] >>
              \o Chunks(Slice(d, 12 + n, Len(d)))

RECURSIVE ChunkBytes(_)
ChunkBytes(cs) == IF cs = <<>> THEN 0 ELSE 12 + Head(cs).length + ChunkBytes(Tail(cs))

\* bitwise exclusive or of two naturals below 2^k
RECURSIVE Xor(_, _, _)
Xor(k, a, b) ==
    IF k = 0 THEN 0
    ELSE ((a + b) % 2) + 2 * Xor(k - 1, a \div 2, b \div 2)

\* one bit step of the reflected CRC-32 (polynomial 0xEDB88320) on a
\* register kept as two 16-bit halves
CrcShift(c) ==
    LET sh == [hi |-> c.hi \div 2, lo |-> (c.lo \div 2) + 32768 * (c.hi % 2)] IN
    IF c.lo % 2 = 1
    THEN [hi |-> Xor(16, sh.hi, \HEDB8), lo |-> Xor(16, sh.lo, \H8320)]
    ELSE sh

\* (the singleton sets below only make the register a value before the next
\* step is taken)
RECURSIVE CrcBits(_, _)
CrcBits(c, n) ==
    IF n = 0 THEN c
    ELSE CHOOSE r \in {CrcBits(CrcShift(x), n - 1) : x \in {c}} : TRUE

CrcByte(c, byte) == CrcBits([hi |-> c.hi, lo |-> Xor(16, c.lo, byte)], 8)

RECURSIVE CrcUpdate(_, _)
CrcUpdate(c, b) ==
    IF b = <<>> THEN c
    ELSE CHOOSE r \in {CrcUpdate(CrcByte(x, Head(b)), Tail(b)) : x \in {c}} : TRUE

\* the standard CRC-32 (zlib.crc32) of a byte string, as four big-endian bytes
Crc32(b) ==
    LET c == CrcUpdate([hi |-> 65535, lo |-> 65535], b) IN
    PackU32BE([hi |-> 65535 - c.hi, lo |-> 65535 - c.lo])

\* the generator of p has returned from its latest call, so the file named
\* by args[p] holds what that call wrote
Returned(p) ==
    /\ pc[p] \in {"module", "exited"}
    /\ err[p] = "none"
    /\ ip[p] > 1

\* call number k of script p has returned in the current run
CompletedCall(p, k) ==
    /\ pc[p] # "idle"
    /\ k < ip[p]
    /\ k <= Len(Script(p))
    /\ Script(p)[k].op = "call"

\* the ICO run is over and no I/O error occurred
IcoRunOver == pc["ico"] = "exited" /\ err["ico"] # "OSError"

IcoFile == fs["icon.ico"]

(* ---------------------------------------------------------------------- *)
(* Properties of create_ico.py                                            *)
(* ---------------------------------------------------------------------- *)
\* C1: once the ICO run is over (no I/O error), icon.ico exists and is
\* exactly 6 + 16 + 40 + 32*32*4 = 4158 bytes long.
C1_IcoLength ==
    IcoRunOver =>
        /\ IcoFile.exists
        /\ Len(IcoFile.data) = 6 + 16 + 40 + (ico_width * ico_height * 4)
        /\ Len(IcoFile.data) = 4158

\* C2: the ICO run can fail only through an I/O error: a run that is over
\* without an OSError raised no other error, wrote icon.ico and printed the
\* confirmation message.
C2_IcoOnlyIOErrors ==
    IcoRunOver =>
        /\ err["ico"] = "none"
        /\ IcoFile.exists
        /\ out["ico"] = <<"ICO file created successfully">>

\* C3: once the buffers of create_minimal_ico have been constructed, the
\* bitmap-info header is a 40-byte record holding 40, width 32, height 64,
\* planes 1, bpp 32, compression 0, image size 4096 and zeros, and as many
\* values were supplied as the record layout has fields.
C3_BmpHeader ==
    (pc["ico"] \in {"open", "write", "exited"} /\ err["ico"] # "OSError") =>
        /\ Len(bmp_values) = Len(bmp_format)
        /\ bmp_header.ok
        /\ Len(bmp_header.bytes) = 40
        /\ DecodeLE(Slice(bmp_header.bytes, 0, 4)) = 40
        /\ bmp_values = <<40, 32, 64, 1, 32, 0, 4096, 0, 0, 0, 0>>

\* C4: in the icon.ico of a finished run, bytes 0-5 are 00 00 01 00 01 00,
\* the directory entry is 16 bytes, and its offset field (bytes 18-21) is
\* 22 = 6 + 16 * count, where the info header actually begins.
C4_IcoStructure ==
    IcoRunOver =>
        /\ IcoFile.exists
        /\ Len(IcoFile.data) >= 22 + 40
        /\ Slice(IcoFile.data, 0, 6) = <<0, 0, 1, 0, 1, 0>>
        /\ DecodeLE(Slice(IcoFile.data, 18, 22)) = 22
        /\ 22 = 6 + 16 * DecodeLE(Slice(IcoFile.data, 4, 6))
        /\ DecodeLE(Slice(IcoFile.data, 22, 26)) = 40

(* ---------------------------------------------------------------------- *)
(* Properties of create_placeholders.py                                   *)
(* ---------------------------------------------------------------------- *)
\* the file written by the latest returned call of create_minimal_png
PngOut == fs[args["png"].filename].data

\* its chunk stream
PngChunks == Chunks(Slice(PngOut, 8, Len(PngOut)))

\* file f holds exactly what the last completed generator call left in it
Emitted(f) == last[f].gen # "none" /\ fs[f].exists /\ fs[f].data = last[f].data

\* C5: in every PNG file emitted by create_minimal_png, each chunk's length
\* field is the number of its data bytes and each chunk's CRC field is the
\* standard CRC-32 of type tag + data.
C5_ChunkCrc ==
    Returned("png") =>
        /\ Len(PngChunks) = 3
        /\ \A i \in 1..Len(PngChunks) :
             /\ PngChunks[i].length = Len(PngChunks[i].data)
             /\ PngChunks[i].crc = Crc32(PngChunks[i].tag \o PngChunks[i].data)

\* C6: every emitted PNG file is the 8-byte signature followed by exactly
\* the chunks IHDR, IDAT, IEND in this order, and nothing after IEND.
C6_PngLayout ==
    Returned("png") =>
        /\ Len(PngOut) >= 8
        /\ Slice(PngOut, 0, 8) = <<137, 80, 78, 71, 13, 10, 26, 10>>
        /\ [i \in 1..Len(PngChunks) |-> PngChunks[i].tag]
             = << <<73, 72, 68, 82>>, <<73, 68, 65, 84>>, <<73, 69, 78, 68>> >>
        /\ 8 + ChunkBytes(PngChunks) = Len(PngOut)

\* a call with a width above 65535 and a different height has returned
C6_Witness ==
    /\ Returned("png")
    /\ args["png"].width = 70000
    /\ args["png"].height = 32
    /\ Len(PngChunks) = 3

\* C9: whatever the dimensions, the CRC fields are 0x90773496, 0xe1240dc9
\* and 0xae426082, the IDAT data is the same 13 bytes and the file is 70
\* bytes long; two emitted files differ at most in file bytes 16-23.
C9_FixedCrcAndIdat ==
    /\ Returned("png") =>
         /\ Len(PngOut) = 70
         /\ Slice(PngOut, 29, 33) = <<144, 119, 52, 150>>
         /\ Slice(PngOut, 41, 54) = <<8, 29, 1, 1, 0, 254, 255, 0, 0, 0, 1, 0, 1>>
         /\ Slice(PngOut, 54, 58) = <<225, 36, 13, 201>>
         /\ Slice(PngOut, 66, 70) = <<174, 66, 96, 130>>
    /\ \A f, g \in FileNames :
         (Emitted(f) /\ Emitted(g) /\ last[f].gen = "png" /\ last[g].gen = "png") =>
             /\ Len(fs[f].data) = Len(fs[g].data)
             /\ \A i \in 1..Len(fs[f].data) :
                  fs[f].data[i] # fs[g].data[i] => (i - 1) \in 16..23

\* two files emitted for different dimensions are both in the directory
C9_Witness ==
    \E f, g \in FileNames :
        /\ Emitted(f) /\ Emitted(g)
        /\ last[f].gen = "png" /\ last[g].gen = "png"
        /\ last[f].width # last[g].width
        /\ last[f].height # last[g].height
        /\ fs[f].data # fs[g].data

\* the IHDR data of file f, when f starts with a signature and an IHDR chunk
IhdrDataOf(f) == Slice(fs[f].data, 16, 29)

\* C7: the IHDR data of each PNG the script has emitted is 13 bytes: the
\* requested width and height, big-endian, then 8, 2, 0, 0, 0; 32x32.png
\* decodes to 32 x 32, 128x128.png and 128x128@2x.png to 128 x 128.
C7_IhdrPayload ==
    /\ \A k \in 1..Len(PngScript) :
         CompletedCall("png", k) =>
             LET f == PngScript[k].filename IN
             /\ Len(fs[f].data) >= 29
             /\ DecodeBE(Slice(fs[f].data, 8, 12)) = 13
             /\ Slice(fs[f].data, 12, 16) = <<73, 72, 68, 82>>
             /\ DecodeBE(Slice(IhdrDataOf(f), 0, 4)) = PngScript[k].width
             /\ DecodeBE(Slice(IhdrDataOf(f), 4, 8)) = PngScript[k].height
             /\ Slice(IhdrDataOf(f), 8, 13) = <<8, 2, 0, 0, 0>>
    /\ CompletedCall("png", 1) =>
         /\ DecodeBE(Slice(IhdrDataOf("32x32.png"), 0, 4)) = 32
         /\ DecodeBE(Slice(IhdrDataOf("32x32.png"), 4, 8)) = 32
    /\ CompletedCall("png", 2) =>
         /\ DecodeBE(Slice(IhdrDataOf("128x128.png"), 0, 4)) = 128
         /\ DecodeBE(Slice(IhdrDataOf("128x128.png"), 4, 8)) = 128
    /\ CompletedCall("png", 3) =>
         /\ DecodeBE(Slice(IhdrDataOf("128x128@2x.png"), 0, 4)) = 128
         /\ DecodeBE(Slice(IhdrDataOf("128x128@2x.png"), 4, 8)) = 128

\* all three calls of the script have returned
C7_Witness ==
    /\ CompletedCall("png", 3)
    /\ DecodeBE(Slice(IhdrDataOf("32x32.png"), 0, 4)) = 32
    /\ DecodeBE(Slice(IhdrDataOf("128x128@2x.png"), 4, 8)) = 128

FullContent(p, s) == Concat(Build(p, s).bufs)

C10_State ==
    \A p \in Procs :
        \* while the file is open every buffer is already constructed
        /\ pc[p] = "write" =>
             fs[args[p].filename].data \o Concat(pending[p])
                 = FullContent(p, args[p])
        \* a run that raised struct.error never had its file open
        /\ err[p] = "struct.error" => pending[p] = <<>>
        \* the files of the calls that returned are complete, in script order
        /\ \A k \in 1..Len(Script(p)) :
             CompletedCall(p, k) =>
                 /\ fs[Script(p)[k].filename].exists
                 /\ fs[Script(p)[k].filename].data = FullContent(p, Script(p)[k])
        \* the message is printed only after every call has returned
        /\ out[p] # <<>> =>
             \A k \in 1..Len(Script(p)) :
                 Script(p)[k].op = "call" => CompletedCall(p, k)

C10_Step ==
    \A p \in Procs :
        \* buffer construction, failing or not, leaves the file untouched
        /\ pc[p] = "build" =>
             fs'[args[p].filename] = fs[args[p].filename]
        \* struct.error is raised by buffer construction only
        /\ (err'[p] = "struct.error" /\ err[p] # "struct.error") => pc[p] = "build"
        \* one open, then writes, then close: once closed the file stays
        /\ (pc[p] \in {"module", "exited", "idle"} /\ args[p] # NoArgs
              /\ pc'[p] \notin {"build", "open", "write"}) =>
             fs'[args[p].filename] = fs[args[p].filename]

\* C10: buffer construction completes before the file is opened and touches
\* no file; the file gets its content in one open-write-close sequence; the
\* confirmation message is printed only after every output file of the
\* script is completely written, the files being written in script order.
C10_BuildBeforeWrite == []C10_State /\ [][C10_Step]_vars

\* the ICO run died in buffer construction leaving a stale icon.ico as it
\* was, and the PNG script has printed its message
C10_Witness ==
    /\ err["ico"] = "struct.error"
    /\ pc["ico"] = "exited"
    /\ IcoFile = StaleFile
    /\ out["png"] = <<"PNG files created successfully">>

====
